---- MODULE Spec2Model ----
(***************************************************************************)
(* The iterative research loop of research_agent: ResearchAgent            *)
(* (core/agent.py) driving LLMService (services/llm_service.py) and        *)
(* SearchService (services/search_service.py) over one ResearchContext     *)
(* (core/models.py).                                                       *)
(*                                                                         *)
(* Strings are sequences of one-character strings.  Python's None is the   *)
(* empty sequence and a present value v is <<v>>.                          *)
(***************************************************************************)
EXTENDS Integers, Sequences, FiniteSets, TLC

VARIABLES
    pc,                 \* position of the control flow inside conduct_research
    config,             \* ResearchConfig of the agent (immutable for a run)
    context,            \* <<>> before the ResearchContext exists, else <<ctx>>
    search_queries,     \* local of _perform_research_iteration: the planned queries
    by_query,           \* local: search_results_by_query, in dict insertion order
    new_search_results, \* local: results admitted in this round
    new_sources_count,  \* local: number of results admitted in this round
    new_concepts,       \* local: concepts extracted in this round
    result,             \* <<>> until conduct_research returns, else <<ResearchResult>>
    executor,           \* SearchService.executor: its busy workers, its queue, the calls made
    exc,                \* history: the collaborator call whose exception escaped, or "none"
    round               \* history: the state at the last loop entry and the calls made since

vars == <<pc, config, context, search_queries, by_query, new_search_results,
          new_sources_count, new_concepts, result, executor, exc, round>>

locals == <<search_queries, by_query, new_search_results, new_sources_count,
            new_concepts>>

-----------------------------------------------------------------------------
(* Bounds of the exploration *)

MaxIterations == 2      \* largest config.max_iterations explored
NumUrls == 2            \* distinct source URLs the search provider can return
MaxCalls == 5           \* execute_search calls made on the service on its own
MaxAssessedRound == 3   \* largest iteration_count assessed on its own

(* Program constants *)

max_workers == 3                \* ThreadPoolExecutor(max_workers=3)
MinQuestionLength == 3          \* validate_input: len(user_input.strip()) < 3
DefaultRoundsWithoutAssessment == 3 \* _should_continue_research: iteration_count < 3
FallbackCompletenessScore == 50 \* assess_research_completeness fallback
FallbackContinueRounds == 3     \* its should_continue: iteration_count < 3
HighConfidenceScore == 80
MediumConfidenceScore == 60

-----------------------------------------------------------------------------
(* core/models.py *)

INITIALIZED == "initialized"
IN_PROGRESS == "in_progress"
COMPLETED == "completed"
FAILED == "failed"
ResearchStatus == {INITIALIZED, IN_PROGRESS, COMPLETED, FAILED}

LOW == "low"
MEDIUM == "medium"
HIGH == "high"
ConfidenceLevel == {LOW, MEDIUM, HIGH}

None == <<>>
Some(v) == <<v>>
IsNone(o) == o = <<>>
Get(o) == o[1]

\* ResearchContext(user_question=q, status=s) with the dataclass defaults
ResearchContext(q, s) ==
    [ user_question      |-> q,
      current_summary    |-> <<>>,
      used_sources       |-> {},
      iteration_count    |-> 0,
      status             |-> s,
      key_concepts_found |-> <<>>,
      research_history   |-> <<>>,
      search_results     |-> <<>>,
      last_assessment    |-> None,
      end_time           |-> None ]

\* all orders in which list(a_set) can enumerate the set
Orders(S) ==
    {f \in [1 .. Cardinality(S) -> S] : \A i, j \in DOMAIN f : f[i] = f[j] => i = j}

\* A snapshot that counts the rounds where it should count the sources
from_context_counting_rounds(ctx, order) ==
    [ original_question       |-> ctx.user_question,
      final_summary           |-> ctx.current_summary,
      sources_used            |-> order,
      total_sources           |-> Len(ctx.research_history),
      iterations_completed    |-> ctx.iteration_count,
      key_concepts_discovered |-> ctx.key_concepts_found,
      research_history        |-> ctx.research_history,
      final_assessment        |-> ctx.last_assessment,
      duration_seconds        |-> ctx.end_time,
      status                  |-> ctx.status,
      metadata                |-> {} ]

\* ResearchResult.from_context, with sources_used in the order `order`
from_context(ctx, order) ==
    [ original_question       |-> ctx.user_question,
      final_summary           |-> ctx.current_summary,
      sources_used            |-> order,
      total_sources           |-> Cardinality(ctx.used_sources),
      iterations_completed    |-> ctx.iteration_count,
      key_concepts_discovered |-> ctx.key_concepts_found,
      research_history        |-> ctx.research_history,
      final_assessment        |-> ctx.last_assessment,
      duration_seconds        |-> ctx.end_time,
      status                  |-> ctx.status,
      metadata                |-> {} ]

\* min_completeness_score: the default 80.0, and 50
MinCompletenessScores == {50, 80}

\* ResearchConfig: the fields the loop reads
ResearchConfig ==
    [ max_iterations            : 0 .. MaxIterations,
      min_completeness_score    : MinCompletenessScores,
      enable_concept_extraction : BOOLEAN ]

-----------------------------------------------------------------------------
(* Strings *)

SP == " "
Upper == <<"S", "C", "R", "I", "P", "T", "E", "V", "A", "L", "X", "J">>
Lowered == <<"s", "c", "r", "i", "p", "t", "e", "v", "a", "l", "x", "j">>

\* str.lower() on one character
LowerChar(c) ==
    IF \E i \in DOMAIN Upper : Upper[i] = c
    THEN Lowered[CHOOSE i \in DOMAIN Upper : Upper[i] = c]
    ELSE c

Lower(s) == [i \in DOMAIN s |-> LowerChar(s[i])]

\* str.strip()
Strip(s) ==
    LET idx == {i \in DOMAIN s : s[i] # SP}
    IN  IF idx = {} THEN <<>>
        ELSE LET lo == CHOOSE i \in idx : \A j \in idx : i <= j
                 hi == CHOOSE i \in idx : \A j \in idx : j <= i
             IN  SubSeq(s, lo, hi)

\* re.search(pattern, s, re.IGNORECASE) for a literal pattern
ContainsIgnoreCase(s, pat) ==
    \E i \in 1 .. (Len(s) - Len(pat) + 1) :
        SubSeq(Lower(s), i, i + Len(pat) - 1) = Lower(pat)

suspicious_patterns ==
    { <<"<", "s", "c", "r", "i", "p", "t">>,
      <<"j", "a", "v", "a", "s", "c", "r", "i", "p", "t", ":">>,
      <<"e", "v", "a", "l", "(">>,
      <<"e", "x", "e", "c", "(">> }

\* utils/helpers.py validate_input
validate_input(user_input) ==
    IF user_input = <<>> THEN FALSE
    ELSE IF Len(Strip(user_input)) < MinQuestionLength THEN FALSE
    ELSE IF \E p \in suspicious_patterns : ContainsIgnoreCase(user_input, p) THEN FALSE
    ELSE TRUE

\* The questions handed to conduct_research
Questions ==
    { <<>>,
      <<" ", "a", "b", " ">>,
      <<"t", "e", "s", "t", " ", "t", "o", "p", "i", "c">>,
      <<"a", " ", "<", "S", "c", "r", "i", "p", "t", ">">> }

-----------------------------------------------------------------------------
(* services/search_service.py *)

\* A raw provider hit.  url 0 is the empty string, url u > 0 a source URL.
RawHits ==
    {[url |-> u, content |-> "c", snippet |-> ""] : u \in 0 .. NumUrls}
    \cup {[url |-> 1, content |-> "d", snippet |-> ""],
          [url |-> 1, content |-> "", snippet |-> "s"]}

\* The hit lists the provider returns for one query: no hit, any single hit,
\* and one list that repeats a URL with drifted content
HitLists ==
    {<<>>} \cup {<<h>> : h \in RawHits}
    \cup {<<[url |-> 1, content |-> "c", snippet |-> ""],
            [url |-> 1, content |-> "d", snippet |-> ""]>>}

\* What the search tool does for one query
ProviderOutcomes ==
    {[kind |-> "results", hits |-> h] : h \in HitLists}
    \cup {[kind |-> "string"], [kind |-> "other"], [kind |-> "timeout"], [kind |-> "error"]}

\* content longer than 200 characters
IsLong(content) == content = "L"
\* content[:200] + "..."
Truncated(content) == "L200..."

\* SearchService.execute_search: every failure becomes an empty list
execute_search(outcome) ==
    IF outcome.kind = "results" THEN outcome.hits
    ELSE IF outcome.kind = "string"
         THEN <<[url |-> 0, content |-> "c", snippet |-> ""]>>
    ELSE <<>>

\* SearchService._create_search_result: None for a hit without url or text
create_search_result(raw) ==
    LET snippet == IF IsLong(raw.content)
                   THEN (IF raw.snippet # "" THEN raw.snippet ELSE Truncated(raw.content))
                   ELSE raw.content
    IN  IF raw.url = 0 \/ ~(raw.content # "" \/ snippet # "")
        THEN None
        ELSE Some([url |-> raw.url, content |-> raw.content, snippet |-> snippet])

RECURSIVE process_search_results(_)
\* SearchService._process_search_results
process_search_results(raw_results) ==
    IF raw_results = <<>> THEN <<>>
    ELSE LET r == create_search_result(Head(raw_results))
         IN  r \o process_search_results(Tail(raw_results))

\* all_results[query] = processed_results on a dict kept in insertion order
DictSet(d, k, v) ==
    IF \E i \in DOMAIN d : d[i].query = k
    THEN [i \in DOMAIN d |-> IF d[i].query = k THEN [query |-> k, results |-> v] ELSE d[i]]
    ELSE Append(d, [query |-> k, results |-> v])

RECURSIVE DictValues(_)
\* the results of all keys, in the order the loop over items() visits them
DictValues(d) ==
    IF d = <<>> THEN <<>> ELSE Head(d).results \o DictValues(Tail(d))

\* SearchService.executor after __init__: no worker runs a call, nothing is
\* queued, no execute_search call has been made
ThreadPoolExecutor == [running |-> {}, queue |-> <<>>, calls |-> <<>>]

-----------------------------------------------------------------------------
(* services/llm_service.py *)

\* How a structured model call fails: a ValidationError or JSONDecodeError
\* ("parse_error"), another ValueError such as the output parser's
\* ("value_error"), an object (or None) without the required fields
\* ("missing_field"), any other exception ("error")
FailureResponses ==
    {[kind |-> "parse_error"], [kind |-> "value_error"], [kind |-> "missing_field"],
     [kind |-> "error"]}

\* Query lists the model plans: none, one query, two distinct queries, one
\* query twice
QA == <<"a">>
QB == <<"a", " ", "b">>
PlanQueryLists == { <<>>, <<QA>>, <<QA, QB>>, <<QB, QB>> }

\* What the structured model call of generate_search_strategy does
PlanResponses ==
    {[kind |-> "ok", search_queries |-> q] : q \in PlanQueryLists}
    \cup FailureResponses

\* LLMService.generate_search_strategy
generate_search_strategy(ctx, resp) ==
    IF resp.kind = "ok"
    THEN [raised |-> FALSE,
          value |-> [search_queries |-> resp.search_queries,
                     research_rationale |-> "model",
                     expected_findings |-> "model"]]
    ELSE IF resp.kind \in {"parse_error", "value_error", "missing_field"}
    THEN [raised |-> FALSE,
          value |-> [search_queries |-> <<ctx.user_question>>,
                     research_rationale |-> "Fallback to basic search due to parsing error",
                     expected_findings |-> "Basic information about the topic"]]
    ELSE [raised |-> TRUE]

\* Concepts the model extracts
AI == <<"A", "I">>
ai == <<"a", "i">>
ConceptLists == { <<AI, ai, ai>> }

\* What the structured model call of extract_key_concepts does
ConceptResponses ==
    {[kind |-> "ok", key_concepts |-> c] : c \in ConceptLists}
    \cup FailureResponses

\* LLMService.extract_key_concepts, after the enable_concept_extraction test
extract_key_concepts(resp) ==
    IF resp.kind = "ok" THEN resp.key_concepts ELSE <<>>

\* main_answer texts the model writes
MainAnswers == { <<" ", "x", " ">> }

\* What the structured model call of update_summary does
SummaryResponses ==
    {[kind |-> "ok", main_answer |-> m] : m \in MainAnswers}
    \cup FailureResponses

\* A summary update that returns the empty summary when the model call fails
update_summary_blank(ctx, resp) ==
    IF resp.kind = "ok" THEN Strip(resp.main_answer) ELSE <<>>

\* LLMService.update_summary, after the blank new_information test
update_summary(ctx, resp) ==
    IF resp.kind = "ok" THEN Strip(resp.main_answer) ELSE ctx.current_summary

\* completeness_score values the model reports
ModelScores == {79, 85}
\* missing_aspects / recommended_next_searches the model reports
ModelLists == { <<"gap">> }

\* What the structured model call of assess_research_completeness does:
\* a full object, an object without completeness_score, an object without
\* the other fields (or no object), a parse failure, any other exception
AssessResponses ==
    {[kind |-> "ok", should_continue |-> b, completeness_score |-> n, lists |-> l] :
        b \in BOOLEAN, n \in ModelScores, l \in ModelLists}
    \cup {[kind |-> "no_score", should_continue |-> b, lists |-> <<>>] : b \in BOOLEAN}
    \cup FailureResponses

\* A confidence derivation whose High threshold is exclusive
confidence_of_exclusive(score) ==
    IF score > HighConfidenceScore THEN HIGH
    ELSE IF score >= MediumConfidenceScore THEN MEDIUM
    ELSE LOW

\* lines 142-147 of assess_research_completeness
confidence_of(score) ==
    IF score >= HighConfidenceScore THEN HIGH
    ELSE IF score >= MediumConfidenceScore THEN MEDIUM
    ELSE LOW

\* LLMService.assess_research_completeness
assess_research_completeness(ctx, resp) ==
    IF resp.kind \in {"ok", "no_score"}
    THEN LET score == IF resp.kind = "ok" THEN resp.completeness_score ELSE 0
         IN  [raised |-> FALSE,
              value |-> [should_continue |-> resp.should_continue,
                         completeness_score |-> score,
                         reasoning |-> "model",
                         missing_aspects |-> resp.lists,
                         recommended_searches |-> resp.lists,
                         confidence_level |-> confidence_of(score)]]
    ELSE IF resp.kind = "parse_error"
    THEN [raised |-> FALSE,
          value |-> [should_continue |-> ctx.iteration_count < FallbackContinueRounds,
                     completeness_score |-> FallbackCompletenessScore,
                     reasoning |-> "Assessment parsing failed, using fallback logic",
                     missing_aspects |-> <<>>,
                     recommended_searches |-> <<>>,
                     confidence_level |-> LOW]]
    ELSE [raised |-> TRUE]

-----------------------------------------------------------------------------
(* core/agent.py *)

\* A loop guard that admits one round too many
should_continue_research_past_limit(ctx) ==
    IF ctx.iteration_count > config.max_iterations THEN FALSE
    ELSE IF ctx.iteration_count = 0 THEN TRUE
    ELSE IF ~IsNone(ctx.last_assessment) THEN Get(ctx.last_assessment).should_continue
    ELSE ctx.iteration_count < DefaultRoundsWithoutAssessment

\* A loop guard that does not look at the last assessment
should_continue_research_unassessed(ctx) ==
    IF ctx.iteration_count >= config.max_iterations THEN FALSE
    ELSE IF ctx.iteration_count = 0 THEN TRUE
    ELSE ctx.iteration_count < DefaultRoundsWithoutAssessment

\* ResearchAgent._should_continue_research
should_continue_research(ctx) ==
    IF ctx.iteration_count >= config.max_iterations THEN FALSE
    ELSE IF ctx.iteration_count = 0 THEN TRUE
    ELSE IF ~IsNone(ctx.last_assessment) THEN Get(ctx.last_assessment).should_continue
    ELSE ctx.iteration_count < DefaultRoundsWithoutAssessment

\* An admission that does not look at used_sources
add_search_result_unchecked(ctx, r) ==
    [ctx |-> [ctx EXCEPT !.used_sources = @ \cup {r.url},
                         !.search_results = Append(@, r)],
     added |-> TRUE]

\* SearchResult.__eq__ (and __hash__): the url alone
SearchResult_eq(a, b) == a.url = b.url

\* An admission that replaces the stored result by a later one of the same url
add_search_result_replacing(ctx, r) ==
    IF r.url \notin ctx.used_sources
    THEN [ctx |-> [ctx EXCEPT !.used_sources = @ \cup {r.url},
                              !.search_results = Append(@, r)],
          added |-> TRUE]
    ELSE [ctx |-> [ctx EXCEPT !.search_results =
                      [i \in DOMAIN @ |-> IF @[i].url = r.url THEN r ELSE @[i]]],
          added |-> FALSE]

\* ResearchContext.add_search_result
add_search_result(ctx, r) ==
    IF r.url \notin ctx.used_sources
    THEN [ctx |-> [ctx EXCEPT !.used_sources = @ \cup {r.url},
                              !.search_results = Append(@, r)],
          added |-> TRUE]
    ELSE [ctx |-> ctx, added |-> FALSE]

RECURSIVE AdmitAll(_, _, _, _)
\* _perform_research_iteration, lines 155-163
AdmitAll(ctx, results, admitted, count) ==
    IF results = <<>>
    THEN [ctx |-> ctx, new_search_results |-> admitted, new_sources_count |-> count]
    ELSE LET a == add_search_result(ctx, Head(results))
         IN  IF a.added
             THEN AdmitAll(a.ctx, Tail(results), Append(admitted, Head(results)), count + 1)
             ELSE AdmitAll(a.ctx, Tail(results), admitted, count)

\* context.key_concepts_found.extend([c for c in new_concepts if c not in ...])
extend_key_concepts(found, concepts) ==
    found \o SelectSeq(concepts, LAMBDA c : \A i \in DOMAIN found : found[i] # c)

\* A stopping test that needs the score to exceed the minimum
stopping_condition_strict(assessment) ==
    ~assessment.should_continue
        \/ assessment.completeness_score > config.min_completeness_score

\* A stopping test that looks at the score alone
stopping_condition_score_only(assessment) ==
    assessment.completeness_score >= config.min_completeness_score

\* the stopping test of conduct_research, line 88
stopping_condition(assessment) ==
    ~assessment.should_continue
        \/ assessment.completeness_score >= config.min_completeness_score

Ctx == Get(context)
NoRound ==
    [ calls |-> <<>>, current_summary |-> <<>>, research_history |-> <<>>,
      last_assessment |-> None, updated_summary |-> None ]

Init ==
    /\ pc = "idle"
    /\ config \in ResearchConfig
    /\ context = None
    /\ search_queries = <<>>
    /\ by_query = <<>>
    /\ new_search_results = <<>>
    /\ new_sources_count = 0
    /\ new_concepts = <<>>
    /\ result = None
    /\ executor = ThreadPoolExecutor
    /\ exc = "none"
    /\ round = NoRound

\* conduct_research, lines 36-56: no validation of the question; the context
\* is created IN_PROGRESS
ConductResearch ==
    /\ pc = "idle"
    /\ \E q \in Questions :
          context' = Some(ResearchContext(q, IN_PROGRESS))
    /\ pc' = "loop"
    /\ UNCHANGED <<config, executor, locals, result, exc, round>>

\* while self._should_continue_research(context): context.iteration_count += 1
EnterIteration ==
    /\ pc = "loop"
    /\ should_continue_research(Ctx)
    /\ context' = Some([Ctx EXCEPT !.iteration_count = @ + 1])
    /\ round' = [ calls |-> <<>>,
                  current_summary |-> Ctx.current_summary,
                  research_history |-> Ctx.research_history,
                  last_assessment |-> Ctx.last_assessment,
                  updated_summary |-> None ]
    /\ pc' = "plan"
    /\ UNCHANGED <<config, executor, locals, result, exc>>

\* the loop condition is false
LeaveLoop ==
    /\ pc = "loop"
    /\ ~should_continue_research(Ctx)
    /\ pc' = "finalize"
    /\ UNCHANGED <<config, executor, context, locals, result, exc, round>>

\* _perform_research_iteration, lines 135-147, the model answering from R
PlanSearchesFrom(R) ==
    /\ pc = "plan"
    /\ \E resp \in R :
          LET s == generate_search_strategy(Ctx, resp)
          IN  IF s.raised
              THEN /\ exc' = "generate_search_strategy"
                   /\ pc' = "except"
                   /\ UNCHANGED search_queries
              ELSE /\ search_queries' = s.value.search_queries
                   /\ pc' = "search"
                   /\ UNCHANGED exc
    /\ round' = [round EXCEPT !.calls = Append(@, "plan")]
    /\ by_query' = <<>>
    /\ UNCHANGED <<config, executor, context, new_search_results, new_sources_count,
                   new_concepts, result>>

\* number of execute_search calls made so far in this round
SearchesDone == Cardinality({i \in DOMAIN round.calls : round.calls[i] = "search"})

\* A search loop that lets a timeout or provider error escape
ExecuteSearchFrom_raising(O) ==
    /\ pc = "search"
    /\ SearchesDone < Len(search_queries)
    /\ \E outcome \in O :
          LET query == search_queries[SearchesDone + 1]
              raw_results == execute_search(outcome)
          IN  IF outcome.kind \in {"timeout", "error"}
              THEN /\ pc' = "except"
                   /\ exc' = "execute_search"
                   /\ UNCHANGED by_query
              ELSE /\ by_query' = DictSet(by_query, query, process_search_results(raw_results))
                   /\ UNCHANGED <<pc, exc>>
    /\ round' = [round EXCEPT !.calls = Append(@, "search")]
    /\ UNCHANGED <<config, executor, context, search_queries, new_search_results,
                   new_sources_count, new_concepts, result>>

\* execute_multiple_searches: one pass of its loop, the provider answering from O
ExecuteSearchFrom(O) ==
    /\ pc = "search"
    /\ SearchesDone < Len(search_queries)
    /\ \E outcome \in O :
          LET query == search_queries[SearchesDone + 1]
              raw_results == execute_search(outcome)
          IN  by_query' = DictSet(by_query, query, process_search_results(raw_results))
    /\ round' = [round EXCEPT !.calls = Append(@, "search")]
    /\ UNCHANGED <<pc, config, executor, context, search_queries, new_search_results,
                   new_sources_count, new_concepts, result, exc>>

\* An admission that starts as soon as one search has returned
ProcessResults_early ==
    /\ pc = "search"
    /\ SearchesDone >= 1 \/ search_queries = <<>>
    /\ LET a == AdmitAll(Ctx, DictValues(by_query), <<>>, 0)
       IN  /\ context' = Some(a.ctx)
           /\ new_search_results' = a.new_search_results
           /\ new_sources_count' = a.new_sources_count
    /\ pc' = "concepts"
    /\ UNCHANGED <<config, executor, search_queries, by_query, new_concepts, result, exc, round>>

\* _perform_research_iteration, lines 154-163
ProcessResults ==
    /\ pc = "search"
    /\ SearchesDone = Len(search_queries)
    /\ LET a == AdmitAll(Ctx, DictValues(by_query), <<>>, 0)
       IN  /\ context' = Some(a.ctx)
           /\ new_search_results' = a.new_search_results
           /\ new_sources_count' = a.new_sources_count
    /\ pc' = "concepts"
    /\ UNCHANGED <<config, executor, search_queries, by_query, new_concepts, result, exc, round>>

\* A concept extraction that lets a failure of the model call escape
ExtractConceptsFrom_raising(R) ==
    /\ pc = "concepts"
    /\ IF new_search_results # <<>> /\ config.enable_concept_extraction
       THEN \E resp \in R :
              IF resp.kind = "error"
              THEN /\ exc' = "extract_key_concepts"
                   /\ pc' = "except"
                   /\ UNCHANGED <<context, new_concepts>>
              ELSE /\ new_concepts' = extract_key_concepts(resp)
                   /\ context' = Some([Ctx EXCEPT !.key_concepts_found =
                                          extend_key_concepts(@, new_concepts')])
                   /\ pc' = "record"
                   /\ UNCHANGED exc
       ELSE /\ new_concepts' = <<>>
            /\ pc' = "record"
            /\ UNCHANGED <<context, exc>>
    /\ round' = IF new_search_results # <<>>
                THEN [round EXCEPT !.calls = Append(@, "extract")] ELSE round
    /\ search_queries' = <<>>
    /\ by_query' = <<>>
    /\ UNCHANGED <<config, executor, new_search_results, new_sources_count, result>>

\* _perform_research_iteration, lines 165-170, the model answering from R;
\* the IterationResult of this model leaves search_queries out, so neither
\* search_queries nor search_results_by_query is read after this point
ExtractConceptsFrom(R) ==
    /\ pc = "concepts"
    /\ IF new_search_results # <<>>
       THEN /\ IF config.enable_concept_extraction
               THEN \E resp \in R : new_concepts' = extract_key_concepts(resp)
               ELSE new_concepts' = <<>>
            /\ context' = Some([Ctx EXCEPT !.key_concepts_found =
                                   extend_key_concepts(@, new_concepts')])
            /\ round' = [round EXCEPT !.calls = Append(@, "extract")]
       ELSE /\ new_concepts' = <<>>
            /\ UNCHANGED <<context, round>>
    /\ pc' = "record"
    /\ search_queries' = <<>>
    /\ by_query' = <<>>
    /\ UNCHANGED <<config, executor, new_search_results, new_sources_count, result, exc>>

\* An iteration record numbered from zero
IterationResult_zero_based ==
    [ iteration_number   |-> Ctx.iteration_count - 1,
      search_results     |-> new_search_results,
      new_sources_count  |-> new_sources_count,
      summary_length     |-> Len(Ctx.current_summary),
      key_concepts_found |-> new_concepts ]

\* _perform_research_iteration, lines 172-183, without search_queries and timestamp
IterationResult ==
    [ iteration_number   |-> Ctx.iteration_count,
      search_results     |-> new_search_results,
      new_sources_count  |-> new_sources_count,
      summary_length     |-> Len(Ctx.current_summary),
      key_concepts_found |-> new_concepts ]

\* A loop without the zero-new-sources exit
RecordIteration_no_exit ==
    /\ pc = "record"
    /\ context' = Some([Ctx EXCEPT !.research_history = Append(@, IterationResult)])
    /\ pc' = "update"
    /\ search_queries' = <<>>
    /\ by_query' = <<>>
    /\ new_search_results' = <<>>
    /\ new_sources_count' = 0
    /\ new_concepts' = <<>>
    /\ UNCHANGED <<config, executor, result, exc, round>>

\* A loop that leaves on zero new sources before recording the round
RecordIteration_break_first ==
    /\ pc = "record"
    /\ context' = IF new_sources_count = 0 THEN context
                  ELSE Some([Ctx EXCEPT !.research_history = Append(@, IterationResult)])
    /\ pc' = IF new_sources_count = 0 THEN "finalize" ELSE "update"
    /\ search_queries' = <<>>
    /\ by_query' = <<>>
    /\ new_search_results' = <<>>
    /\ new_sources_count' = 0
    /\ new_concepts' = <<>>
    /\ UNCHANGED <<config, executor, result, exc, round>>

\* A zero-new-sources exit that forgets the last assessment
RecordIteration_clearing ==
    /\ pc = "record"
    /\ context' = Some([Ctx EXCEPT !.research_history = Append(@, IterationResult),
                                   !.last_assessment =
                                       IF new_sources_count = 0 THEN None ELSE @])
    /\ pc' = IF new_sources_count = 0 THEN "finalize" ELSE "update"
    /\ search_queries' = <<>>
    /\ by_query' = <<>>
    /\ new_search_results' = <<>>
    /\ new_sources_count' = 0
    /\ new_concepts' = <<>>
    /\ UNCHANGED <<config, executor, result, exc, round>>

\* conduct_research, lines 68-75: the record is appended, then the
\* zero-new-sources test
RecordIteration ==
    /\ pc = "record"
    /\ context' = Some([Ctx EXCEPT !.research_history = Append(@, IterationResult)])
    /\ pc' = IF new_sources_count = 0 THEN "finalize" ELSE "update"
    /\ search_queries' = <<>>
    /\ by_query' = <<>>
    /\ new_search_results' = <<>>
    /\ new_sources_count' = 0
    /\ new_concepts' = <<>>
    /\ UNCHANGED <<config, executor, result, exc, round>>

LastRecord == Ctx.research_history[Len(Ctx.research_history)]

\* _update_research_context, the model answering from R
UpdateResearchContextFrom(R) ==
    /\ pc = "update"
    /\ IF LastRecord.search_results = <<>>
       THEN UNCHANGED <<context, round>>
       ELSE \E resp \in R :
               LET summary == update_summary(Ctx, resp)
               IN  /\ context' = Some([Ctx EXCEPT !.current_summary = summary])
                   /\ round' = [round EXCEPT !.calls = Append(@, "update_summary"),
                                             !.updated_summary = Some(summary)]
    /\ pc' = "assess"
    /\ UNCHANGED <<config, executor, locals, result, exc>>

\* conduct_research, lines 80-91, the model answering from R
AssessCompletenessFrom(R) ==
    /\ pc = "assess"
    /\ \E resp \in R :
          LET a == assess_research_completeness(Ctx, resp)
          IN  IF a.raised
              THEN /\ exc' = "assess_research_completeness"
                   /\ pc' = "except"
                   /\ UNCHANGED context
              ELSE /\ context' = Some([Ctx EXCEPT !.last_assessment = Some(a.value)])
                   /\ pc' = IF stopping_condition(a.value) THEN "finalize" ELSE "loop"
                   /\ UNCHANGED exc
    /\ round' = [round EXCEPT !.calls = Append(@, "assess")]
    /\ UNCHANGED <<config, executor, locals, result>>

\* A finalisation that goes back to the loop condition
Finalize_reentering ==
    /\ pc = "finalize"
    /\ pc' = "loop"
    /\ UNCHANGED <<config, executor, context, locals, result, exc, round>>

\* A finalisation that fails after it has set the status
Finalize_then_raise ==
    /\ pc = "finalize"
    /\ context' = Some([Ctx EXCEPT !.status = COMPLETED, !.end_time = Some("now")])
    /\ pc' = "except"
    /\ exc' = "from_context"
    /\ UNCHANGED <<config, executor, locals, result, round>>

\* conduct_research, lines 93-102
Finalize ==
    /\ pc = "finalize"
    /\ LET ctx == [Ctx EXCEPT !.status = COMPLETED, !.end_time = Some("now")]
       IN  /\ context' = Some(ctx)
           /\ \E order \in Orders(ctx.used_sources) :
                 result' = Some(from_context(ctx, order))
    /\ pc' = "done"
    /\ UNCHANGED <<config, executor, locals, exc, round>>

\* An exception handler that returns a result without the accumulated work
HandleException_discarding ==
    /\ pc = "except"
    /\ LET ctx == [Ctx EXCEPT !.status = FAILED, !.end_time = Some("now")]
       IN  /\ context' = Some(ctx)
           /\ result' = Some([from_context(ResearchContext(ctx.user_question, FAILED), <<>>)
                                EXCEPT !.metadata = {"error"},
                                       !.duration_seconds = ctx.end_time,
                                       !.iterations_completed = ctx.iteration_count])
    /\ pc' = "done"
    /\ UNCHANGED <<config, executor, locals, exc, round>>

\* An exception handler that returns the result without the error annotation
HandleException_unannotated ==
    /\ pc = "except"
    /\ LET ctx == [Ctx EXCEPT !.status = FAILED, !.end_time = Some("now")]
       IN  /\ context' = Some(ctx)
           /\ \E order \in Orders(ctx.used_sources) :
                 result' = Some(from_context(ctx, order))
    /\ pc' = "done"
    /\ UNCHANGED <<config, executor, locals, exc, round>>

\* conduct_research, lines 104-112
HandleException ==
    /\ pc = "except"
    /\ LET ctx == [Ctx EXCEPT !.status = FAILED, !.end_time = Some("now")]
       IN  /\ context' = Some(ctx)
           /\ \E order \in Orders(ctx.used_sources) :
                 result' = Some([from_context(ctx, order) EXCEPT !.metadata = {"error"}])
    /\ pc' = "done"
    /\ UNCHANGED <<config, executor, locals, exc, round>>

PlanSearches == PlanSearchesFrom(PlanResponses)
ExecuteSearch == ExecuteSearchFrom(ProviderOutcomes)
ExtractConcepts == ExtractConceptsFrom(ConceptResponses)
UpdateResearchContext == UpdateResearchContextFrom(SummaryResponses)
AssessCompleteness == AssessCompletenessFrom(AssessResponses)

Next ==
    \/ ConductResearch
    \/ EnterIteration
    \/ LeaveLoop
    \/ PlanSearches
    \/ ExecuteSearch
    \/ ProcessResults
    \/ ExtractConcepts
    \/ RecordIteration
    \/ UpdateResearchContext
    \/ AssessCompleteness
    \/ Finalize
    \/ HandleException

\* Every run of conduct_research, with collaborators that may fail in any way
Spec == Init /\ [][Next]_vars

\* Every way a search ends, the hits told apart by their URL alone: the loop
\* reads nothing else of a hit
PlainOutcomes ==
    {o \in ProviderOutcomes :
        o.kind = "results" => \A i \in DOMAIN o.hits : o.hits[i].content = "c"}

\* the steps of a run that has started
RunStep ==
    \/ EnterIteration
    \/ LeaveLoop
    \/ PlanSearches
    \/ ExecuteSearchFrom(PlainOutcomes)
    \/ ProcessResults
    \/ ExtractConcepts
    \/ RecordIteration
    \/ UpdateResearchContext
    \/ AssessCompleteness
    \/ Finalize
    \/ HandleException

\* the question of the runs followed to their end (the loop passes the
\* question on to the model and never tests it)
LiveQuestions == {q \in Questions : validate_input(q)}

\* conduct_research has created the context of a run, lines 36-56
InitLive ==
    /\ pc = "loop"
    /\ config \in ResearchConfig
    /\ \E q \in LiveQuestions : context = Some(ResearchContext(q, IN_PROGRESS))
    /\ search_queries = <<>>
    /\ by_query = <<>>
    /\ new_search_results = <<>>
    /\ new_sources_count = 0
    /\ new_concepts = <<>>
    /\ result = None
    /\ executor = ThreadPoolExecutor
    /\ exc = "none"
    /\ round = NoRound

\* conduct_research is one thread of control: once a call to a collaborator has
\* returned or raised (execute_search gives up on the provider after its
\* timeout), the statement after it runs
LiveSpec == InitLive /\ [][RunStep]_vars /\ WF_vars(RunStep)

\* The collaborators never fail except by malformed model output
NoHardFault(R) == {r \in R : r.kind \notin {"error", "timeout"}}

NextMalformed ==
    \/ ConductResearch
    \/ EnterIteration
    \/ LeaveLoop
    \/ PlanSearchesFrom(NoHardFault(PlanResponses))
    \/ ExecuteSearchFrom(NoHardFault(ProviderOutcomes))
    \/ ProcessResults
    \/ ExtractConceptsFrom(NoHardFault(ConceptResponses))
    \/ RecordIteration
    \/ UpdateResearchContextFrom(NoHardFault(SummaryResponses))
    \/ AssessCompletenessFrom(NoHardFault(AssessResponses))
    \/ Finalize
    \/ HandleException

\* Runs whose only faults are malformed model outputs
SpecMalformed == Init /\ [][NextMalformed]_vars

\* Provider outcomes that are a timeout, a provider error, or hits of which at
\* least one survives normalisation
HitsOrFault ==
    {o \in ProviderOutcomes :
        \/ o.kind \in {"timeout", "error"}
        \/ o.kind = "results" /\ process_search_results(o.hits) # <<>>}

\* Model responses on which the gateway operation returns a value
Answered(R) == {r \in R : r.kind \in {"ok", "no_score", "parse_error"}}

NextSearchFaults ==
    \/ ConductResearch
    \/ EnterIteration
    \/ LeaveLoop
    \/ PlanSearchesFrom(Answered(PlanResponses))
    \/ ExecuteSearchFrom(HitsOrFault)
    \/ ProcessResults
    \/ ExtractConceptsFrom(Answered(ConceptResponses))
    \/ RecordIteration
    \/ UpdateResearchContextFrom(Answered(SummaryResponses))
    \/ AssessCompletenessFrom(Answered(AssessResponses))
    \/ Finalize

\* Runs whose only faults are search timeouts and provider errors: every model
\* call returns, and a search that does not fail returns a usable hit
SpecSearchFaults == Init /\ [][NextSearchFaults]_vars

\* Assessment outputs that cannot be parsed or lack a required field
MalformedAssessments ==
    {r \in AssessResponses : r.kind \in {"parse_error", "value_error", "missing_field"}}

NextFallback ==
    \/ ConductResearch
    \/ EnterIteration
    \/ LeaveLoop
    \/ PlanSearchesFrom(Answered(PlanResponses))
    \/ ExecuteSearchFrom(HitsOrFault)
    \/ ProcessResults
    \/ ExtractConceptsFrom(Answered(ConceptResponses))
    \/ RecordIteration
    \/ UpdateResearchContextFrom(Answered(SummaryResponses))
    \/ AssessCompletenessFrom(MalformedAssessments)
    \/ Finalize
    \/ HandleException

\* Runs in which every assessment output is malformed and every other model
\* call returns
SpecFallback == Init /\ [][NextFallback]_vars

-----------------------------------------------------------------------------
(* services/search_service.py: execute_search on the thread pool *)

\* the hits a provider call returns when it returns
PoolHits == <<[url |-> 1, content |-> "c", snippet |-> ""]>>

others == <<pc, config, context, locals, result, exc, round>>

\* a worker is idle while tasks are queued: it takes the next task at once
WorkerTakesNext ==
    Cardinality(executor.running) < max_workers /\ executor.queue # <<>>

\* the record of one execute_search call: whether its own provider call
\* returns within search_timeout once it runs, how many workers were busy at
\* the submit, and the list the call returned
SearchCall(fast, outcome) ==
    [ fast    |-> fast,
      busy    |-> Cardinality(executor.running),
      results |-> process_search_results(execute_search(outcome)) ]

\* execute_search, lines 30-50: submit the provider call and wait at most
\* search_timeout for its future.  A provider call that outlasts the wait is
\* not cancelled: it keeps its worker, or its place in the queue.
ExecuteSearchOnPool ==
    /\ pc = "idle"
    /\ Len(executor.calls) < MaxCalls
    /\ ~WorkerTakesNext
    /\ \E fast \in BOOLEAN :
          LET i == Len(executor.calls) + 1
              returned == [kind |-> "results", hits |-> PoolHits]
              timed_out == [kind |-> "timeout"]
          IN  IF Cardinality(executor.running) < max_workers
              THEN \* a worker runs the call at once
                   IF fast
                   THEN executor' = [executor EXCEPT
                            !.calls = Append(@, SearchCall(fast, returned))]
                   ELSE executor' = [executor EXCEPT
                            !.running = @ \cup {i},
                            !.calls = Append(@, SearchCall(fast, timed_out))]
              ELSE \* every worker is busy: the call waits in the queue
                   \/ executor' = [executor EXCEPT
                            !.queue = Append(@, i),
                            !.calls = Append(@, SearchCall(fast, timed_out))]
                   \/ \* a running call ends early enough in the wait
                      /\ fast
                      /\ \E j \in executor.running :
                            executor' = [executor EXCEPT
                                !.running = @ \ {j},
                                !.calls = Append(@, SearchCall(fast, returned))]
    /\ UNCHANGED others

\* a provider call that outlasted its wait ends; nobody reads its future
ProviderReturns ==
    /\ pc = "idle"
    /\ \E j \in executor.running :
          executor' = [executor EXCEPT !.running = @ \ {j}]
    /\ UNCHANGED others

\* an idle worker takes the next queued call; a call that returns is over at
\* once, its future unread, another keeps the worker
StartQueued ==
    /\ pc = "idle"
    /\ WorkerTakesNext
    /\ LET k == Head(executor.queue)
       IN  executor' = [executor EXCEPT
               !.queue = Tail(@),
               !.running = IF executor.calls[k].fast THEN @ ELSE @ \cup {k}]
    /\ UNCHANGED others

NextSearchService ==
    \/ ExecuteSearchOnPool
    \/ ProviderReturns
    \/ StartQueued

\* The search service called on its own, query after query
SpecSearchService == Init /\ [][NextSearchService]_vars

-----------------------------------------------------------------------------
(* services/search_service.py: provider calls that end after their timeout *)

\* hung provider calls followed at a time
MaxPending == 2

\* the url only a provider call that ends after its timeout returns
LateUrl == NumUrls + 1
LateHits == <<[url |-> LateUrl, content |-> "c", snippet |-> ""]>>

\* a provider call answers in time with one hit, or outlasts search_timeout
LateOutcomes ==
    {[kind |-> "results", hits |-> <<[url |-> u, content |-> "c", snippet |-> ""]>>] :
        u \in 1 .. NumUrls}
    \cup {[kind |-> "timeout"]}

\* execute_multiple_searches, one pass of its loop: execute_search submits the
\* provider call and waits for its future at most search_timeout; a call that
\* outlasts the wait is not cancelled and keeps running on its worker thread
ExecuteSearchLate ==
    /\ pc = "search"
    /\ SearchesDone < Len(search_queries)
    /\ \E outcome \in LateOutcomes :
          LET query == search_queries[SearchesDone + 1]
              raw_results == execute_search(outcome)
          IN  /\ by_query' = DictSet(by_query, query, process_search_results(raw_results))
              /\ executor' =
                    IF outcome.kind = "timeout" /\ Cardinality(executor.running) < MaxPending
                    THEN [executor EXCEPT !.running = @ \cup
                            {[call |-> <<Ctx.iteration_count, SearchesDone + 1>>,
                              hits |-> LateHits]}]
                    ELSE executor
    /\ round' = [round EXCEPT !.calls = Append(@, "search")]
    /\ UNCHANGED <<pc, config, context, search_queries, new_search_results,
                   new_sources_count, new_concepts, result, exc>>

\* A late provider call whose hits are admitted when it ends
ProviderReturnsLate_admitting ==
    /\ pc \notin {"idle", "done"}
    /\ \E j \in executor.running :
          /\ executor' = [executor EXCEPT !.running = @ \ {j}]
          /\ context' = Some(AdmitAll(Ctx, process_search_results(j.hits), <<>>, 0).ctx)
    /\ UNCHANGED <<pc, config, locals, result, exc, round>>

\* a provider call that outlasted its wait ends on its worker thread while the
\* run goes on; its future is referenced nowhere and its hits are lost
ProviderReturnsLate ==
    /\ pc \notin {"idle", "done"}
    /\ \E j \in executor.running :
          executor' = [executor EXCEPT !.running = @ \ {j}]
    /\ UNCHANGED others

OkOnly(R) == {r \in R : r.kind = "ok"}

NextLate ==
    \/ ConductResearch
    \/ EnterIteration
    \/ LeaveLoop
    \/ PlanSearchesFrom(OkOnly(PlanResponses))
    \/ ExecuteSearchLate
    \/ ProviderReturnsLate
    \/ ProcessResults
    \/ ExtractConceptsFrom(OkOnly(ConceptResponses))
    \/ RecordIteration
    \/ UpdateResearchContextFrom(OkOnly(SummaryResponses))
    \/ AssessCompletenessFrom(OkOnly(AssessResponses))
    \/ Finalize

\* Runs whose only faults are provider calls that outlast search_timeout and
\* end later
SpecLate == Init /\ [][NextLate]_vars

-----------------------------------------------------------------------------
(* services/search_service.py: _process_search_results on its own *)

\* _process_search_results calls followed
MaxProcessed == 3

\* Raw hits of every shape _create_search_result tells apart: with or without
\* url, content of at most 200 characters ("c"), longer ("L") or missing, a
\* snippet supplied ("s") or not
ShapedHits ==
    [url : {0, 1}, content : {"", "c", "L"}, snippet : {"", "s"}]

\* one call _process_search_results([raw]), args and return value kept in the
\* call log
ProcessSearchResults ==
    /\ pc = "processing"
    /\ Len(executor.calls) < MaxProcessed
    /\ \E raw \in ShapedHits :
          executor' = [executor EXCEPT !.calls =
                          Append(@, [raw |-> raw,
                                     processed |-> process_search_results(<<raw>>)])]
    /\ UNCHANGED others

InitProcessing ==
    /\ pc = "processing"
    /\ config \in ResearchConfig
    /\ context = None
    /\ search_queries = <<>>
    /\ by_query = <<>>
    /\ new_search_results = <<>>
    /\ new_sources_count = 0
    /\ new_concepts = <<>>
    /\ result = None
    /\ executor = ThreadPoolExecutor
    /\ exc = "none"
    /\ round = NoRound

\* _process_search_results applied to raw hits of every shape
SpecProcessing == InitProcessing /\ [][ProcessSearchResults]_vars

-----------------------------------------------------------------------------
(* services/search_service.py: _calculate_relevance_score on its own *)

\* str.split(): the maximal runs of characters that are not whitespace
Words(s) ==
    {SubSeq(s, i, j) : <<i, j>> \in
        {p \in (DOMAIN s) \X (DOMAIN s) :
            /\ p[1] <= p[2]
            /\ \A k \in p[1] .. p[2] : s[k] # SP
            /\ p[1] = 1 \/ s[p[1] - 1] = SP
            /\ p[2] = Len(s) \/ s[p[2] + 1] = SP}}

\* `word in text` on two strings: word occurs somewhere in text
Contains(text, word) ==
    \E i \in 1 .. (Len(text) - Len(word) + 1) :
        SubSeq(text, i, i + Len(word) - 1) = word

\* SearchService._calculate_relevance_score; the queries followed have at most
\* two words, for which the quotient is a whole number
calculate_relevance_score(query, title, content, snippet) ==
    LET query_words == Words(Lower(query))
        all_text == Lower(title \o <<SP>> \o content \o <<SP>> \o snippet)
        matches == Cardinality({word \in query_words : Contains(all_text, word)})
        score == IF query_words # {}
                 THEN (matches * 100) \div Cardinality(query_words)
                 ELSE 0
    IN  IF score < 100 THEN score ELSE 100

\* _calculate_relevance_score calls followed
MaxScored == 2

\* queries: no word, blanks only, two words, a word in upper case, a word that
\* is part of a longer one
ScoreQueries ==
    { <<>>, <<SP>>, <<"a", SP, "b">>, <<"A">>, <<"c", "a", "t">> }
ScoreTitles == { <<"T">> }
ScoreContents == { <<"a">>, <<"b", SP, "a">>, <<"c", "o", "n", "c", "a", "t">> }
ScoreSnippets == { <<>>, <<"b">> }

\* one call of _calculate_relevance_score, args and return value kept in the
\* call log
CalculateRelevanceScore ==
    /\ pc = "scoring"
    /\ Len(executor.calls) < MaxScored
    /\ \E query \in ScoreQueries, title \in ScoreTitles,
          content \in ScoreContents, snippet \in ScoreSnippets :
          executor' = [executor EXCEPT !.calls =
              Append(@, [query |-> query, title |-> title, content |-> content,
                         snippet |-> snippet,
                         score |-> calculate_relevance_score(query, title, content, snippet)])]
    /\ UNCHANGED others

InitScoring ==
    /\ pc = "scoring"
    /\ config \in ResearchConfig
    /\ context = None
    /\ search_queries = <<>>
    /\ by_query = <<>>
    /\ new_search_results = <<>>
    /\ new_sources_count = 0
    /\ new_concepts = <<>>
    /\ result = None
    /\ executor = ThreadPoolExecutor
    /\ exc = "none"
    /\ round = NoRound

\* _calculate_relevance_score applied to every query and text
SpecScoring == InitScoring /\ [][CalculateRelevanceScore]_vars

-----------------------------------------------------------------------------
(* services/llm_service.py: construction of the gateway *)

\* nothing is constructed yet
InitGateway ==
    /\ pc = "new"
    /\ config \in ResearchConfig
    /\ context = None
    /\ search_queries = <<>>
    /\ by_query = <<>>
    /\ new_search_results = <<>>
    /\ new_sources_count = 0
    /\ new_concepts = <<>>
    /\ result = None
    /\ executor = ThreadPoolExecutor
    /\ exc = "none"
    /\ round = NoRound

\* What the construction meets: the probe answers, the probe raises, or the
\* constructor call itself is rejected before its body runs (ResearchAgent.__init__
\* passes LLMService one argument where it takes the model and the config)
ProbeOutcomes == {"answers", "raises", "bad_call"}

\* A construction that swallows the failure of the probe
LLMService_init_lenient ==
    /\ pc = "new"
    /\ \E probe \in ProbeOutcomes :
          IF probe = "bad_call"
          THEN /\ pc' = "no_gateway"
               /\ exc' = "LLMService"
               /\ UNCHANGED round
          ELSE /\ round' = [round EXCEPT !.calls = Append(@, "probe")]
               /\ pc' = "idle"
               /\ exc' = IF probe = "raises" THEN "LLMService.__init__" ELSE exc
    /\ UNCHANGED <<config, executor, context, locals, result>>

\* LLMService.__init__, lines 32-53, called from ResearchAgent.__init__: the
\* probe self.llm.invoke("Simple test"); its failure is raised as RuntimeError
\* and leaves neither a gateway nor an agent
LLMService_init ==
    /\ pc = "new"
    /\ \E probe \in ProbeOutcomes :
          IF probe = "bad_call"
          THEN /\ pc' = "no_gateway"
               /\ exc' = "LLMService"
               /\ UNCHANGED round
          ELSE /\ round' = [round EXCEPT !.calls = Append(@, "probe")]
               /\ IF probe = "raises"
                  THEN pc' = "no_gateway" /\ exc' = "LLMService.__init__"
                  ELSE pc' = "idle" /\ UNCHANGED exc
    /\ UNCHANGED <<config, executor, context, locals, result>>

NextGateway ==
    \/ LLMService_init
    \/ Next

\* Construction of the gateway, then every run of conduct_research
SpecGateway == InitGateway /\ [][NextGateway]_vars

-----------------------------------------------------------------------------
(* services/llm_service.py: assess_research_completeness on its own *)

\* completeness scores around the confidence thresholds
ThresholdScores == {0, 59, 60, 79, 80, 100}

ScoredResponses ==
    {[kind |-> "ok", should_continue |-> b, completeness_score |-> n, lists |-> l] :
        b \in BOOLEAN, n \in ThresholdScores, l \in ModelLists}
    \cup {[kind |-> "no_score", should_continue |-> b, lists |-> <<>>] : b \in BOOLEAN}
    \cup FailureResponses

\* a context about to be assessed in round n
InitAssess ==
    /\ pc = "assess"
    /\ config \in ResearchConfig
    /\ \E n \in 1 .. MaxAssessedRound :
          context = Some([ResearchContext(<<>>, IN_PROGRESS) EXCEPT !.iteration_count = n])
    /\ search_queries = <<>>
    /\ by_query = <<>>
    /\ new_search_results = <<>>
    /\ new_sources_count = 0
    /\ new_concepts = <<>>
    /\ result = None
    /\ executor = ThreadPoolExecutor
    /\ exc = "none"
    /\ round = NoRound

NextAssess ==
    \/ AssessCompletenessFrom(ScoredResponses)
    \/ LeaveLoop
    \/ Finalize
    \/ HandleException

\* assess_research_completeness applied to every response, then the return
SpecAssess == InitAssess /\ [][NextAssess]_vars

-----------------------------------------------------------------------------
(* core/agent.py: _should_continue_research on its own *)

\* max_iterations and iteration_count range past the default of three rounds
MaxGuardIterations == 4
MaxGuardCount == 4

\* an assessment that asks for another round, and one that does not
GuardAssessments ==
    { [should_continue |-> b,
       completeness_score |-> FallbackCompletenessScore,
       reasoning |-> "model",
       missing_aspects |-> <<>>,
       recommended_searches |-> <<>>,
       confidence_level |-> LOW] : b \in BOOLEAN }

\* every context the guard can be asked about, at the head of the loop
InitGuard ==
    /\ pc = "loop"
    /\ config \in [ max_iterations            : 0 .. MaxGuardIterations,
                    min_completeness_score    : MinCompletenessScores,
                    enable_concept_extraction : BOOLEAN ]
    /\ \E n \in 0 .. MaxGuardCount, a \in {None} \cup {Some(g) : g \in GuardAssessments} :
          context = Some([ResearchContext(<<>>, IN_PROGRESS)
                            EXCEPT !.iteration_count = n, !.last_assessment = a])
    /\ search_queries = <<>>
    /\ by_query = <<>>
    /\ new_search_results = <<>>
    /\ new_sources_count = 0
    /\ new_concepts = <<>>
    /\ result = None
    /\ executor = ThreadPoolExecutor
    /\ exc = "none"
    /\ round = NoRound

NextGuard ==
    \/ EnterIteration
    \/ LeaveLoop

\* one evaluation of the loop condition on every context
SpecGuard == InitGuard /\ [][NextGuard]_vars

-----------------------------------------------------------------------------
(* Properties *)

Res == Get(result)
Returned == pc = "done"

\* C1 (bounded rounds): in every reachable state of conduct_research, for
\* every config including max_iterations = 0 and every behaviour of the
\* collaborators, iteration_count is at most max_iterations, and so is the
\* iterations_completed of the returned result.
C1_BoundedRounds ==
    /\ ~IsNone(context) => Ctx.iteration_count <= config.max_iterations
    /\ ~IsNone(result) => Res.iterations_completed <= config.max_iterations

\* a run the bound stopped: the last assessment asked for another round
C1_Witness ==
    /\ Returned
    /\ config.max_iterations = MaxIterations
    /\ Res.iterations_completed = config.max_iterations
    /\ ~IsNone(Res.final_assessment)
    /\ Get(Res.final_assessment).should_continue
    /\ Get(Res.final_assessment).completeness_score < config.min_completeness_score

\* C2 as stated (at-least-one-round): for a valid question and
\* max_iterations >= 1 the returned research_history has length at least 1,
\* whatever the collaborators return or raise.
C2_AsStated ==
    (Returned /\ config.max_iterations >= 1 /\ validate_input(Res.original_question))
        => Len(Res.research_history) >= 1

\* C2 (at-least-one-round, amended): for a valid question and
\* max_iterations >= 1 the returned research_history has length at least 1,
\* unless the planner call of round 1 raised an exception the gateway does not
\* absorb; then the run is Failed in its first round with an empty history.
C2_AtLeastOneRound ==
    (/\ Returned
     /\ config.max_iterations >= 1
     /\ Res.research_history = <<>>
     /\ validate_input(Res.original_question))
        => /\ exc = "generate_search_strategy"
           /\ round.calls = <<"plan">>
           /\ Res.status = FAILED
           /\ Res.iterations_completed = 1
           /\ Res.total_sources = 0

\* the planner of round 1 raised on a valid question
C2_Witness ==
    /\ Returned
    /\ config.max_iterations >= 1
    /\ validate_input(Res.original_question)
    /\ exc = "generate_search_strategy"
    /\ Res.research_history = <<>>

Urls(results) == {results[i].url : i \in DOMAIN results}
NoDupUrls(results) ==
    \A i, j \in DOMAIN results : results[i].url = results[j].url => i = j

RECURSIVE HistoryResults(_)
\* the search_results of all records of a history, in order
HistoryResults(history) ==
    IF history = <<>> THEN <<>>
    ELSE Head(history).search_results \o HistoryResults(Tail(history))

\* C3 (dedup invariant): at every point of a run each URL has been admitted by
\* add_search_result at most once, used_sources is exactly the set of admitted
\* URLs, and the search_results of the records of research_history together
\* with the round being recorded are the admitted results, each once, so no
\* URL appears twice among them.
C3_Dedup ==
    ~IsNone(context) =>
        /\ NoDupUrls(Ctx.search_results)
        /\ Ctx.used_sources = Urls(Ctx.search_results)
        /\ Cardinality(Ctx.used_sources) = Len(Ctx.search_results)
        /\ HistoryResults(Ctx.research_history) \o new_search_results = Ctx.search_results

\* round 2 has admitted a new URL and rejected a hit whose URL round 1
\* recorded with other content
C3_Witness ==
    /\ pc = "concepts"
    /\ Ctx.iteration_count = 2
    /\ Len(by_query) = 2
    /\ new_sources_count = 1
    /\ \E h \in DOMAIN Ctx.research_history, i \in DOMAIN by_query :
          \E a \in DOMAIN Ctx.research_history[h].search_results,
             b \in DOMAIN by_query[i].results :
             LET old == Ctx.research_history[h].search_results[a]
                 hit == by_query[i].results[b]
             IN  old.url = hit.url /\ old.content # hit.content

\* C4 (always returns): conduct_research returns a ResearchResult and never
\* propagates an exception; the returned status is Completed exactly when no
\* exception escaped a collaborator call inside the loop and Failed
\* otherwise, end_time is set in both cases, and the result carries the error
\* annotation exactly when the status is Failed.
C4_AlwaysReturns ==
    /\ exc # "none" => pc \in {"except", "done"}
    /\ Returned <=> ~IsNone(result)
    /\ Returned =>
          /\ Res.status \in {COMPLETED, FAILED}
          /\ Res.status = Ctx.status
          /\ Res.status = COMPLETED <=> exc = "none"
          /\ Res.status = FAILED <=> exc # "none"
          /\ ~IsNone(Ctx.end_time)
          /\ ~IsNone(Res.duration_seconds)
          /\ "error" \in Res.metadata <=> Res.status = FAILED

\* a run returned Failed with its annotation after the assessment of a
\* recorded round raised
C4_Witness ==
    /\ Returned
    /\ exc = "assess_research_completeness"
    /\ Res.status = FAILED
    /\ "error" \in Res.metadata
    /\ Len(Res.research_history) >= 1
    /\ ~IsNone(Ctx.end_time)

IsPrefix(s, t) == Len(s) <= Len(t) /\ \A i \in DOMAIN s : s[i] = t[i]

\* a run returned after an exception escaped round k >= 2
FailedInLaterRound == Returned /\ exc # "none" /\ Res.iterations_completed >= 2

\* C5 as stated (failure resilience): when an unhandled exception is raised
\* anywhere inside round k >= 2, the result is Failed, its research_history
\* still contains the records of rounds 1..k-1, and its final_summary equals
\* the summary as it stood at the end of round k-1.
C5_AsStated ==
    FailedInLaterRound =>
        /\ Res.status = FAILED
        /\ IsPrefix(round.research_history, Res.research_history)
        /\ Len(round.research_history) = Res.iterations_completed - 1
        /\ Res.final_summary = round.current_summary

\* C5 (failure resilience, amended): when an unhandled exception is raised
\* inside round k >= 2, the result is Failed and its research_history still
\* contains the records of rounds 1..k-1. Raised by the planner, the history
\* is exactly those records and final_summary is the summary of the end of
\* round k-1; raised by the completeness assessment, the history also holds
\* round k's record and final_summary is the summary round k's update_summary
\* returned.
C5_FailureResilience ==
    FailedInLaterRound =>
        /\ Res.status = FAILED
        /\ IsPrefix(round.research_history, Res.research_history)
        /\ Len(round.research_history) = Res.iterations_completed - 1
        /\ \A i \in DOMAIN Res.research_history :
              Res.research_history[i].iteration_number = i
        /\ exc \in {"generate_search_strategy", "assess_research_completeness"}
        /\ exc = "generate_search_strategy" =>
              /\ Res.research_history = round.research_history
              /\ Res.final_summary = round.current_summary
        /\ exc = "assess_research_completeness" =>
              /\ Len(Res.research_history) = Res.iterations_completed
              /\ ~IsNone(round.updated_summary)
              /\ Res.final_summary = Get(round.updated_summary)

\* the assessment of round 2 raised after update_summary changed the summary
C5_Witness ==
    /\ FailedInLaterRound
    /\ exc = "assess_research_completeness"
    /\ Len(Res.research_history) = 2
    /\ Res.final_summary # round.current_summary

\* the round last recorded admitted no new source
ZeroRoundRecorded ==
    /\ ~IsNone(context)
    /\ Ctx.research_history # <<>>
    /\ LastRecord.new_sources_count = 0

\* C6 (early exit on empty): once a round that admitted zero new sources is
\* recorded, no further round is started and research_history has that round
\* as its last record, neither update_summary nor assess_research_completeness
\* was called in that round, last_assessment and the summary keep the values
\* they had before the round, and the run ends Completed.
C6_EarlyExitOnEmpty ==
    /\ ZeroRoundRecorded =>
          /\ pc \in {"finalize", "done"}
          /\ Len(Ctx.research_history) = Ctx.iteration_count
          /\ LastRecord.iteration_number = Ctx.iteration_count
          /\ LastRecord.search_results = <<>>
          /\ \A i \in DOMAIN round.calls : round.calls[i] \notin {"update_summary", "assess"}
          /\ Ctx.last_assessment = round.last_assessment
          /\ Ctx.current_summary = round.current_summary
          /\ exc = "none"
          /\ Returned => Res.status = COMPLETED /\ Res.research_history = Ctx.research_history
    /\ ~IsNone(context) =>
          \A i \in DOMAIN Ctx.research_history :
              Ctx.research_history[i].new_sources_count = 0 => i = Len(Ctx.research_history)

\* round 2 admitted nothing: the run ended Completed with round 1's assessment
C6_Witness ==
    /\ Returned
    /\ ZeroRoundRecorded
    /\ Res.iterations_completed = 2
    /\ ~IsNone(Res.final_assessment)
    /\ Get(Res.final_assessment).should_continue
    /\ Res.status = COMPLETED
    /\ Res.total_sources >= 1

\* the assessment says to go on: should_continue and a score under the minimum
GoOn(A) == A.should_continue /\ A.completeness_score < config.min_completeness_score

\* a step that starts a further round
StartsRound == pc' = "plan" /\ Ctx'.iteration_count = Ctx.iteration_count + 1

\* after an assessed round the loop is re-entered only under an assessment
\* that says to go on
C7_AtLoop ==
    (pc = "loop" /\ Ctx.iteration_count >= 1) =>
        ~IsNone(Ctx.last_assessment) /\ GoOn(Get(Ctx.last_assessment))

\* a first round that admitted one source and was assessed 85, should_continue
\* false, under a minimum of 80
C7_Scenario ==
    /\ ~IsNone(context)
    /\ config.min_completeness_score = 80
    /\ Ctx.iteration_count = 1
    /\ Len(Ctx.research_history) = 1
    /\ Ctx.research_history[1].new_sources_count = 1
    /\ ~IsNone(Ctx.last_assessment)
    /\ Get(Ctx.last_assessment).completeness_score = 85
    /\ ~Get(Ctx.last_assessment).should_continue

C7_ScenarioEnds ==
    C7_Scenario =>
        /\ pc \in {"finalize", "done"}
        /\ exc = "none"
        /\ Returned =>
              /\ Res.status = COMPLETED
              /\ Res.iterations_completed = 1
              /\ Res.sources_used = <<Ctx.research_history[1].search_results[1].url>>

C7_Step ==
    /\ (pc = "assess" /\ pc' # "except") =>
          /\ pc' = IF GoOn(Get(Ctx'.last_assessment)) THEN "loop" ELSE "finalize"
          /\ Ctx'.iteration_count = Ctx.iteration_count
    /\ (pc = "loop" /\ Ctx.iteration_count >= 1) =>
          /\ StartsRound <=> Ctx.iteration_count < config.max_iterations
          /\ ~StartsRound => pc' = "finalize"
    /\ pc = "finalize" => pc' = "done" /\ Ctx'.iteration_count = Ctx.iteration_count
    /\ pc = "done" => pc' = "done"

\* C7 (stopping rule): after a round that admitted a source and produced
\* assessment A, a further round is started if and only if A.should_continue,
\* A.completeness_score < min_completeness_score and iteration_count <
\* max_iterations; a first round that admits one source and is assessed 85 with
\* should_continue false under a minimum of 80 ends the run after exactly one
\* iteration, Completed, with sources_used that one URL.
C7_StoppingRule ==
    /\ [](C7_AtLoop /\ C7_ScenarioEnds)
    /\ [][C7_Step]_vars

\* the scenario run has returned
C7_Witness ==
    /\ Returned
    /\ C7_Scenario
    /\ Res.status = COMPLETED
    /\ Res.iterations_completed = 1
    /\ Res.total_sources = 1
    /\ Len(Res.sources_used) = 1

\* C8 (input validation): a question that is empty, shorter than the minimum
\* length after trimming, or holds an injection-looking pattern is rejected
\* before any ResearchContext is created and before any planner, search or
\* assessment call; no round runs for it.
C8_InputValidation ==
    ~IsNone(context) => validate_input(Ctx.user_question)

Terminal == {COMPLETED, FAILED}
Transitions ==
    {<<INITIALIZED, IN_PROGRESS>>, <<IN_PROGRESS, COMPLETED>>, <<IN_PROGRESS, FAILED>>}

C9_State ==
    /\ ~IsNone(context) => Ctx.status \in ResearchStatus
    /\ Returned <=> (~IsNone(context) /\ Ctx.status \in Terminal)

C9_Step ==
    /\ (IsNone(context) /\ ~IsNone(context')) => Ctx'.status \in {INITIALIZED, IN_PROGRESS}
    /\ ~IsNone(context) =>
          /\ ~IsNone(context')
          /\ Ctx'.status = Ctx.status \/ <<Ctx.status, Ctx'.status>> \in Transitions
          /\ Ctx.status \in Terminal => context' = context

\* C9 (status lifecycle): the context status takes only the transitions
\* Initialized -> InProgress -> Completed or Initialized -> InProgress ->
\* Failed; a returned run has reached one terminal status, terminal statuses
\* are absorbing, and the context is not mutated once it is terminal.
C9_StatusLifecycle ==
    /\ []C9_State
    /\ [][C9_Step]_vars

\* a run that became Failed in its second round
C9_Witness ==
    /\ Returned
    /\ Ctx.status = FAILED
    /\ exc = "generate_search_strategy"
    /\ Ctx.iteration_count = 2
    /\ Len(Ctx.research_history) = 1

\* C10 (malformed model output absorbed): a run whose only faults are model
\* responses that cannot be parsed or lack a required field raises nothing in
\* any gateway operation and never ends with status Failed.
C10_MalformedAbsorbed ==
    /\ exc = "none"
    /\ Returned => Res.status = COMPLETED

\* the URLs admitted before the current round
UsedAtRoundStart == Urls(HistoryResults(round.research_history))

\* C11 (search failures absorbed per query): execute_search turns a timeout
\* or provider error into an empty result list and raises nothing; in a run
\* whose only faults are such search failures, the hits of the other queries
\* of the round are all admitted (those not admitted before are this round's
\* new results), no exception escapes, and the run never ends Failed.
C11_SearchFailuresAbsorbed ==
    /\ \A o \in ProviderOutcomes :
          o.kind \in {"timeout", "error"} => execute_search(o) = <<>>
    /\ pc # "except" /\ exc = "none"
    /\ Returned => Res.status = COMPLETED
    /\ pc = "concepts" =>
          \A u \in Urls(DictValues(by_query)) :
              /\ u \in Ctx.used_sources
              /\ u \notin UsedAtRoundStart => u \in Urls(new_search_results)

\* one query of the round failed and the hit of the other one was admitted
C11_Witness ==
    /\ pc = "concepts"
    /\ Len(by_query) = 2
    /\ by_query[1].results = <<>>
    /\ by_query[2].results # <<>>
    /\ new_sources_count = 1
    /\ Urls(by_query[2].results) = Urls(new_search_results)

\* C12 (queries independent of earlier timeouts): an execute_search call
\* whose own provider call returns within search_timeout yields its results,
\* however many earlier calls timed out with their provider calls still
\* running.
C12_IndependentOfEarlierTimeouts ==
    \A i \in DOMAIN executor.calls :
        executor.calls[i].fast => executor.calls[i].results # <<>>

\* C13 (concept merge): key_concepts_found never holds two entries that are
\* equal ignoring case: a concept present under any casing, or repeated in
\* the extracted batch, is not added again.
C13_ConceptMerge ==
    ~IsNone(context) =>
        \A i, j \in DOMAIN Ctx.key_concepts_found :
            Lower(Ctx.key_concepts_found[i]) = Lower(Ctx.key_concepts_found[j]) => i = j

\* C14 (confidence derivation): every assessment assess_research_completeness
\* returns, stored as last_assessment, has confidence High for a score >= 80,
\* Medium for 60 <= score < 80 and Low otherwise: 0, 59, 60, 79, 80, 100 give
\* Low, Low, Medium, Medium, High, High, and the fallback assessment (score
\* 50) is Low.
C14_ConfidenceDerivation ==
    (~IsNone(context) /\ ~IsNone(Ctx.last_assessment)) =>
        LET A == Get(Ctx.last_assessment)
            n == A.completeness_score
        IN  /\ A.confidence_level =
                  IF n >= 80 THEN HIGH ELSE IF n >= 60 THEN MEDIUM ELSE LOW
            /\ n \in {0, 59} => A.confidence_level = LOW
            /\ n \in {60, 79} => A.confidence_level = MEDIUM
            /\ n \in {80, 100} => A.confidence_level = HIGH
            /\ A.reasoning # "model" => n = 50 /\ A.confidence_level = LOW

\* an assessment with the score 80 was stored with confidence High
C14_Witness ==
    /\ ~IsNone(context)
    /\ ~IsNone(Ctx.last_assessment)
    /\ Get(Ctx.last_assessment).completeness_score = 80
    /\ Get(Ctx.last_assessment).confidence_level = HIGH
    /\ "assess" = round.calls[Len(round.calls)]

\* the calls of a run made through the gateway or the search service
RunCalls == {"plan", "search", "extract", "update_summary", "assess"}

\* C15 (connectivity probe precedes all work): constructing the gateway
\* invokes the model once, and a failing probe is raised as a connection
\* error; no plan, search, summary or assessment operation of any run is
\* executed through a gateway whose probe failed.
C15_ProbePrecedesWork ==
    /\ pc = "new" => round.calls = <<>>
    /\ pc = "idle" => round.calls = <<"probe">> /\ exc = "none"
    /\ exc \in {"LLMService", "LLMService.__init__"} <=> pc = "no_gateway"
    /\ pc = "no_gateway" =>
          /\ IsNone(context) /\ IsNone(result)
          /\ exc = "LLMService.__init__" <=> round.calls = <<"probe">>
          /\ exc = "LLMService" <=> round.calls = <<>>
    /\ (\E i \in DOMAIN round.calls : round.calls[i] \in RunCalls) =>
          exc \notin {"LLMService", "LLMService.__init__"}

\* the probe failed: there is no gateway and nothing has run
C15_Witness ==
    /\ pc = "no_gateway"
    /\ exc = "LLMService.__init__"
    /\ round.calls = <<"probe">>
    /\ IsNone(context)

\* C16 (result snapshot): the result built from a terminal context lists each
\* admitted URL exactly once and nothing else, total_sources is the length of
\* that list, and iterations_completed, final_summary, final_assessment and
\* status are the context's iteration_count, current_summary, last_assessment
\* and terminal status.
C16_ResultSnapshot ==
    Returned =>
        /\ \A i, j \in DOMAIN Res.sources_used :
               Res.sources_used[i] = Res.sources_used[j] => i = j
        /\ {Res.sources_used[i] : i \in DOMAIN Res.sources_used} = Urls(Ctx.search_results)
        /\ Urls(Ctx.search_results) = Ctx.used_sources
        /\ Res.total_sources = Len(Res.sources_used)
        /\ Res.iterations_completed = Ctx.iteration_count
        /\ Res.final_summary = Ctx.current_summary
        /\ Res.final_assessment = Ctx.last_assessment
        /\ Res.status = Ctx.status
        /\ Ctx.status \in {COMPLETED, FAILED}

\* a run that returned two sources after two rounds, with an assessment
C16_Witness ==
    /\ Returned
    /\ Res.total_sources = 2
    /\ Res.iterations_completed = 2
    /\ ~IsNone(Res.final_assessment)
    /\ Res.status = COMPLETED

\* the guard as the specification words it
GuardAsSpecified(ctx) ==
    /\ ctx.iteration_count < config.max_iterations
    /\ \/ ctx.iteration_count = 0
       \/ ~IsNone(ctx.last_assessment) /\ Get(ctx.last_assessment).should_continue
       \/ IsNone(ctx.last_assessment) /\ ctx.iteration_count < 3

\* C17 (loop guard): for every context, _should_continue_research is true
\* exactly when iteration_count < max_iterations and (iteration_count = 0, or
\* an assessment is present and asks to continue, or no assessment is present
\* and iteration_count < 3): the loop enters a round exactly then and leaves
\* otherwise.
C17_LoopGuard ==
    [][pc = "loop" =>
         /\ pc' = "plan" <=> GuardAsSpecified(Ctx)
         /\ pc' = "finalize" <=> ~GuardAsSpecified(Ctx)]_vars

\* the guard stopped a run without an assessment at its third round, below
\* max_iterations
C17_Witness ==
    /\ pc = "finalize"
    /\ Ctx.iteration_count = 3
    /\ IsNone(Ctx.last_assessment)
    /\ config.max_iterations = 4

\* C18 (termination): when every call to a collaborator returns or raises,
\* every run of conduct_research that has started eventually returns with a
\* terminal status, having started at most max_iterations rounds.
C18_Termination ==
    (pc # "idle") ~>
        /\ Returned
        /\ Res.status \in {COMPLETED, FAILED}
        /\ Ctx.iteration_count <= config.max_iterations
        /\ Len(Ctx.research_history) <= config.max_iterations

\* a run that returned after max_iterations rounds
C18_Witness ==
    /\ Returned
    /\ Res.status = COMPLETED
    /\ Ctx.iteration_count = config.max_iterations
    /\ Len(Ctx.research_history) = MaxIterations

\* the fallback assessment of a context
FallbackAssessment(ctx) ==
    [ should_continue      |-> ctx.iteration_count < 3,
      completeness_score   |-> 50,
      reasoning            |-> "Assessment parsing failed, using fallback logic",
      missing_aspects      |-> <<>>,
      recommended_searches |-> <<>>,
      confidence_level     |-> LOW ]

\* every round of the run admitted at least one new source
EveryRoundAdmits ==
    /\ Ctx.research_history # <<>>
    /\ \A i \in DOMAIN Ctx.research_history :
          Ctx.research_history[i].new_sources_count >= 1

\* C19 (fallback assessment drives the loop): when the assessment output is
\* malformed in every round and every round admits a new source, the run
\* performs min(3, max_iterations) rounds if min_completeness_score > 50 and
\* one round otherwise, and ends Completed with the fallback assessment
\* (should_continue = iteration_count < 3, score 50, confidence Low, empty
\* lists) as last_assessment.
C19_FallbackDrivesLoop ==
    (Returned /\ EveryRoundAdmits) =>
        /\ Res.status = COMPLETED
        /\ Res.iterations_completed =
              IF config.min_completeness_score > 50
              THEN (IF config.max_iterations < 3 THEN config.max_iterations ELSE 3)
              ELSE 1
        /\ Res.final_assessment = Some(FallbackAssessment(Ctx))

\* the place of each collaborator call in a round
Rank(c) ==
    CASE c = "plan" -> 1
      [] c = "search" -> 2
      [] c = "extract" -> 3
      [] c = "update_summary" -> 4
      [] c = "assess" -> 5

\* this step made the collaborator call c
Called(c) == round'.calls = Append(round.calls, c)
LastCall == round.calls[Len(round.calls)]

\* the calls of the round so far are in the order plan, searches, extraction,
\* summary update, assessment, each but the search made once
C20_Order ==
    /\ round.calls # <<>> => round.calls[1] = "plan"
    /\ \A i, j \in DOMAIN round.calls :
          i < j => \/ Rank(round.calls[i]) < Rank(round.calls[j])
                   \/ round.calls[i] = "search" /\ round.calls[j] = "search"

C20_Step ==
    /\ Called("plan") =>
          /\ pc = "plan" /\ round.calls = <<>>
          /\ context' = context
          /\ Len(Ctx.research_history) = Ctx.iteration_count - 1
          /\ Ctx.iteration_count > 1 => ~IsNone(Ctx.last_assessment)
    /\ Called("search") =>
          /\ pc = "search" /\ LastCall \in {"plan", "search"}
          /\ context' = context
          /\ SearchesDone < Len(search_queries)
          /\ \E i \in DOMAIN by_query' :
                by_query'[i].query = search_queries[SearchesDone + 1]
    /\ (pc = "search" /\ pc' = "concepts") =>
          /\ SearchesDone = Len(search_queries)
          /\ round' = round
          /\ Ctx'.search_results = Ctx.search_results \o new_search_results'
    /\ Called("extract") =>
          /\ pc = "concepts" /\ LastCall \in {"plan", "search"}
          /\ Urls(new_search_results) \subseteq Ctx.used_sources
          /\ Len(Ctx.research_history) = Ctx.iteration_count - 1
          /\ [Ctx' EXCEPT !.key_concepts_found = Ctx.key_concepts_found] = Ctx
    /\ (pc = "record" /\ pc' # "record") =>
          /\ round' = round
          /\ Len(Ctx'.research_history) = Ctx.iteration_count
          /\ [Ctx' EXCEPT !.research_history = Ctx.research_history] = Ctx
    /\ Called("update_summary") =>
          /\ pc = "update"
          /\ Len(Ctx.research_history) = Ctx.iteration_count
          /\ [Ctx' EXCEPT !.current_summary = Ctx.current_summary] = Ctx
    /\ Called("assess") =>
          /\ pc = "assess" /\ LastCall = "update_summary"
          /\ [Ctx' EXCEPT !.last_assessment = Ctx.last_assessment] = Ctx
          /\ pc' # "except" => ~IsNone(Ctx'.last_assessment)
    /\ (pc = "loop" /\ pc' = "plan") =>
          \/ Ctx.iteration_count = 0 /\ Ctx.research_history = <<>>
          \/ /\ LastCall = "assess"
             /\ ~IsNone(Ctx.last_assessment)
             /\ Len(Ctx.research_history) = Ctx.iteration_count

\* C20 (round protocol): within a round the collaborator calls occur in the
\* order plan, one search per planned query in plan order, admission,
\* concept extraction, append of the iteration record, summary update,
\* assessment; the plan of the next round is requested only after the
\* assessment of this one is stored in last_assessment; and a collaborator
\* call changes nothing of the context but the field the loop assigns from
\* its return value.
C20_RoundProtocol ==
    /\ []C20_Order
    /\ [][C20_Step]_vars

\* the second round of a run made every call of the protocol
C20_Witness ==
    /\ pc = "loop"
    /\ Ctx.iteration_count = 2
    /\ round.calls = <<"plan", "search", "search", "extract", "update_summary", "assess">>
    /\ ~IsNone(round.last_assessment)

\* the update_summary calls of the round so far
SummaryCalls == {i \in DOMAIN round.calls : round.calls[i] = "update_summary"}

C21_State ==
    /\ Cardinality(SummaryCalls) <= 1
    /\ ~IsNone(context) =>
          /\ \A resp \in FailureResponses :
                update_summary(Ctx, resp) = Ctx.current_summary
          /\ (pc \in {"plan", "search", "concepts", "record", "update"}) =>
                Ctx.current_summary = round.current_summary

C21_Step ==
    /\ (~IsNone(context) /\ Ctx'.current_summary # Ctx.current_summary) =>
          /\ pc = "update" /\ Called("update_summary")
          /\ LastRecord.new_sources_count >= 1
    /\ Called("update_summary") =>
          /\ pc = "update"
          /\ LastRecord.search_results # <<>>
          /\ LastRecord.iteration_number = Ctx.iteration_count
          /\ \E resp \in SummaryResponses :
                Ctx'.current_summary = update_summary(Ctx, resp)
    /\ (pc = "update" /\ pc' # "update" /\ ~Called("update_summary")) =>
          /\ LastRecord.search_results = <<>>
          /\ context' = context

\* C21 (summary frame): current_summary changes only at the summary update of
\* a round that admitted a new source; update_summary is called at most once
\* per round and never in a round without new results; on a malformed model
\* output or a failed call it returns the summary as it was before the round.
C21_SummaryFrame ==
    /\ []C21_State
    /\ [][C21_Step]_vars

\* the summary update of the second round left a summary that is not empty
\* as it was before the round
C21_Witness ==
    /\ pc = "assess"
    /\ Ctx.iteration_count = 2
    /\ SummaryCalls # {}
    /\ Ctx.current_summary # <<>>
    /\ Ctx.current_summary = round.current_summary

\* the results the search service can hand to the loop
CreatedResults == {Get(create_search_result(h)) : h \in {g \in RawHits : ~IsNone(create_search_result(g))}}

\* the results offered to the admission of this round
Offered == DictValues(by_query)

C22_State ==
    (~IsNone(context) /\ pc \in {"search", "concepts"}) =>
        /\ \A r \in CreatedResults :
              r.url \in Ctx.used_sources =>
                 add_search_result(Ctx, r) = [ctx |-> Ctx, added |-> FALSE]
        /\ \A a, b \in CreatedResults :
              SearchResult_eq(a, b) <=> a.url = b.url

C22_Step ==
    (pc = "search" /\ pc' = "concepts") =>
        /\ IsPrefix(Ctx.search_results, Ctx'.search_results)
        /\ \A i \in DOMAIN Offered :
              Offered[i].url \in Ctx.used_sources =>
                 \A j \in DOMAIN new_search_results' :
                    new_search_results'[j].url # Offered[i].url
        /\ (\A i \in DOMAIN Offered : Offered[i].url \in Ctx.used_sources) =>
              context' = context /\ new_sources_count' = 0

\* C22 (rejected admission): add_search_result of a result whose URL is in
\* used_sources returns False and changes no field of the context, even when
\* the content of the result differs from the one admitted first, which is
\* kept; two results are equal exactly when their URLs are equal.
C22_RejectedAdmission ==
    /\ []C22_State
    /\ [][C22_Step]_vars

\* a round offered a known URL with other content and admitted nothing
C22_Witness ==
    /\ pc = "concepts"
    /\ new_sources_count = 0
    /\ \E i \in DOMAIN Offered, k \in DOMAIN Ctx.search_results :
          /\ Offered[i].url = Ctx.search_results[k].url
          /\ Offered[i].content # Ctx.search_results[k].content

\* the calls of _process_search_results made so far
Processed == {executor.calls[i] : i \in DOMAIN executor.calls}

\* C23 (discard rule): a raw hit is discarded if and only if its url is empty
\* or both its content and its snippet are empty; a hit with a url and a
\* snippet but no content is kept.
C23_DiscardRule ==
    pc = "processing" =>
        \A c \in Processed :
            (c.processed = <<>>) <=>
                (c.raw.url = 0 \/ (c.raw.content = "" /\ c.raw.snippet = ""))

\* C24 (snippet resolution): the snippet of a created result is the snippet
\* the raw hit supplies whenever it supplies one, whatever the length of the
\* content; only without one is it the first 200 characters of the content and
\* an ellipsis (stated here for content longer than 200 characters).
C24_SnippetResolution ==
    pc = "processing" =>
        \A c \in Processed :
            c.processed # <<>> =>
                /\ c.raw.snippet # "" => c.processed[1].snippet = c.raw.snippet
                /\ (c.raw.snippet = "" /\ IsLong(c.raw.content)) =>
                      c.processed[1].snippet = Truncated(c.raw.content)

\* the score as specified: the share of the query's words among the words of
\* the text, in percent
SpecifiedScore(query, title, content, snippet) ==
    LET queryWords == Words(Lower(query))
        textWords == Words(Lower(title \o <<SP>> \o content \o <<SP>> \o snippet))
    IN  IF queryWords = {} THEN 0
        ELSE (100 * Cardinality(queryWords \cap textWords)) \div Cardinality(queryWords)

\* C25 (relevance score): the score is 100 * |queryWords \cap textWords| /
\* |queryWords| over lower-cased whitespace-split word sets, 0 for a query
\* without words, and within 0..100; "a b" against a text with the only word
\* "a" scores 50, and a query word that is only part of a longer word of the
\* text does not count.
C25_RelevanceScore ==
    pc = "scoring" =>
        \A c \in Processed :
            /\ c.score \in 0 .. 100
            /\ c.score = SpecifiedScore(c.query, c.title, c.content, c.snippet)

\* the call that failed came before the append of the round's record
FailedBeforeRecord == round.calls # <<>> /\ LastCall \in {"plan", "search", "extract"}

C26_State ==
    ~IsNone(context) =>
        /\ \A i \in DOMAIN Ctx.research_history :
              Ctx.research_history[i].iteration_number = i
        /\ (Returned /\ Ctx.status = COMPLETED) =>
              Len(Ctx.research_history) = Ctx.iteration_count
        /\ (Returned /\ Ctx.status = FAILED) =>
              Ctx.iteration_count - Len(Ctx.research_history) =
                 (IF FailedBeforeRecord THEN 1 ELSE 0)

C26_Step ==
    ~IsNone(context) =>
        /\ IsPrefix(Ctx.research_history, Ctx'.research_history)
        /\ Len(Ctx'.research_history) <= Len(Ctx.research_history) + 1

\* C26 (history bookkeeping): research_history is only appended to and its
\* i-th record has iteration_number i; a Completed run has as many records as
\* iteration_count; in a Failed run iteration_count exceeds the number of
\* records by 1 when the failing call came before the append of the round's
\* record, and by 0 otherwise.
C26_HistoryBookkeeping ==
    /\ []C26_State
    /\ [][C26_Step]_vars

\* the plan of the second round failed: two rounds started, one record
C26_Witness ==
    /\ Returned
    /\ Ctx.status = FAILED
    /\ LastCall = "plan"
    /\ Ctx.iteration_count = 2
    /\ Len(Ctx.research_history) = 1
    /\ Ctx.research_history[1].iteration_number = 1

RECURSIVE SumNewSources(_)
\* the sum of new_sources_count over the records of a history
SumNewSources(history) ==
    IF history = <<>> THEN 0
    ELSE Head(history).new_sources_count + SumNewSources(Tail(history))

\* C27 (source accounting): at every loop boundary and in the returned
\* result, the sum of new_sources_count over the records, the size of
\* used_sources, the length of search_results and total_sources are equal,
\* and every record has new_sources_count = len(search_results); Failed runs
\* included, since nothing raises between the admission of a round's results
\* and the append of its record.
C27_SourceAccounting ==
    (~IsNone(context) /\ pc \in {"loop", "finalize", "except", "done"}) =>
        /\ SumNewSources(Ctx.research_history) = Cardinality(Ctx.used_sources)
        /\ Cardinality(Ctx.used_sources) = Len(Ctx.search_results)
        /\ Returned => Res.total_sources = Len(Ctx.search_results)
        /\ \A i \in DOMAIN Ctx.research_history :
              Ctx.research_history[i].new_sources_count =
                 Len(Ctx.research_history[i].search_results)

\* a run that failed in the assessment of its second round, after it had
\* admitted a source in each round
C27_Witness ==
    /\ Returned
    /\ Ctx.status = FAILED
    /\ Len(Ctx.research_history) = 2
    /\ Ctx.research_history[2].new_sources_count = 1
    /\ Res.total_sources = 2

C28_State ==
    (pc = "loop" /\ Ctx.iteration_count >= 1) =>
        /\ ~IsNone(Ctx.last_assessment)
        /\ Get(Ctx.last_assessment).should_continue
        /\ Get(Ctx.last_assessment).completeness_score < config.min_completeness_score
        /\ should_continue_research(Ctx) <=> Ctx.iteration_count < config.max_iterations

C28_Step ==
    (pc = "loop" /\ pc' = "finalize" /\ Ctx.iteration_count >= 1) =>
        Ctx.iteration_count = config.max_iterations

\* C28 (guard state at re-entry): whenever the loop guard is evaluated with
\* iteration_count >= 1, last_assessment is present, asks to continue and has
\* a score below min_completeness_score; so the guard's default for a missing
\* assessment never decides, and the guard ends a started run only when
\* iteration_count has reached max_iterations.
C28_GuardAtReentry ==
    /\ []C28_State
    /\ [][C28_Step]_vars

\* the guard is evaluated after the first of two rounds
C28_Witness ==
    /\ pc = "loop"
    /\ Ctx.iteration_count = 1
    /\ config.max_iterations = 2
    /\ Get(Ctx.last_assessment).should_continue
    /\ Get(Ctx.last_assessment).completeness_score = FallbackCompletenessScore

\* the hits that provider calls still running will return
PendingUrls == UNION {Urls(j.hits) : j \in executor.running}

C29_State ==
    ~IsNone(context) =>
        /\ LateUrl \notin Ctx.used_sources
        /\ LateUrl \notin Urls(Ctx.search_results)
        /\ LateUrl \notin Urls(HistoryResults(Ctx.research_history))
        /\ LateUrl \notin Urls(new_search_results)

C29_Step ==
    (executor'.running # executor.running
        /\ executor'.running \subseteq executor.running) =>
            UNCHANGED <<pc, config, context, locals, result, exc, round>>

\* C29 (late search results are dropped): after execute_search has returned
\* an empty list for a query on a timeout, the hits of that provider call are
\* never admitted into used_sources or into any iteration record, even when
\* the call ends while the run is in progress; the end of a provider call
\* changes nothing of the context or of the loop's state.
C29_LateResultsDropped ==
    /\ []C29_State
    /\ [][C29_Step]_vars

\* a run returned after a provider call of its first round had ended late,
\* and another is still running
C29_Witness ==
    /\ Returned
    /\ Len(Ctx.research_history) = 2
    /\ \E j \in executor.running : j.call[1] = 2
    /\ \A j \in executor.running : j.call[1] # 1
    /\ Ctx.research_history[1].new_sources_count = 1
    /\ LateUrl \in PendingUrls

\* no round of the run admitted a source
NoRoundAdmitted ==
    \A i \in DOMAIN Ctx.research_history :
        Ctx.research_history[i].new_sources_count = 0

\* the run ended by the zero-new-sources exit of round k >= 2
ZeroExitInLaterRound ==
    /\ Len(Ctx.research_history) >= 2
    /\ LastRecord.new_sources_count = 0

\* C30 (final assessment of a Completed run): final_assessment is absent if
\* and only if no round admitted a source, that is max_iterations = 0 or the
\* first round admitted none; after the zero-new-sources exit of a round
\* k >= 2 it is the assessment of round k-1, which asked to continue with a
\* score below min_completeness_score.
C30_FinalAssessment ==
    (Returned /\ Res.status = COMPLETED) =>
        /\ IsNone(Res.final_assessment) <=> NoRoundAdmitted
        /\ NoRoundAdmitted <=>
              \/ config.max_iterations = 0
              \/ Len(Ctx.research_history) = 1 /\ LastRecord.new_sources_count = 0
        /\ ZeroExitInLaterRound =>
              /\ ~IsNone(Res.final_assessment)
              /\ Res.final_assessment = round.last_assessment
              /\ Get(Res.final_assessment).should_continue
              /\ Get(Res.final_assessment).completeness_score < config.min_completeness_score

\* a Completed run whose second round admitted nothing
C30_Witness ==
    /\ Returned
    /\ Res.status = COMPLETED
    /\ Len(Ctx.research_history) = 2
    /\ LastRecord.new_sources_count = 0
    /\ ~IsNone(Res.final_assessment)
    /\ Res.iterations_completed = 2

====
